---- MODULE Spec2Model ----
(***************************************************************************)
(* Model of src/cppcheck.py: a wrapper that runs cppcheck, relays its       *)
(* diagnostic stream to its own error stream and suppresses diagnostics     *)
(* whose fingerprint is found in a pickled store file.                      *)
(*                                                                          *)
(* One behaviour is a series of wrapper processes sharing one file system.  *)
(* Text is modelled by TLA+ strings; a block of text made of whole lines    *)
(* is the sequence of its lines.                                            *)
(***************************************************************************)
EXTENDS Integers, Sequences, FiniteSets, TLC

\* Number of lines the child writes to its diagnostic stream in one run.
MaxLines == 3

(***************************************************************************)
(* The text of the lines the child can write.                               *)
(***************************************************************************)
Ids == {"A"}
Files == {"f.c"}
\* Texts captured by ([^"]+) in the line attribute, as character sequences.
LineTexts == {<<"1", "0">>, <<"0", "7">>, <<"0">>, <<"x">>}

RECURSIVE Join(_)
Join(cs) == IF cs = <<>> THEN "" ELSE Head(cs) \o Join(Tail(cs))

ErrorLine(id, selfclosing) ==
    "        <error id=\"" \o id \o "\" severity=\"s\" msg=\"m\" verbose=\"v\""
        \o (IF selfclosing THEN "/" ELSE "") \o ">\n"

LocationLine(f, cs) ==
    "            <location file=\"" \o f \o "\" line=\"" \o Join(cs) \o "\"/>\n"

EndLine == "        </error>\n"

TextLine1 == "foo.cpp:10: warning: unused variable\n"
TextLine2 == "bar.cpp:3: error: null pointer\n"

StartShapes == [id : Ids, sc : BOOLEAN]
LocShapes == [file : Files, ln : LineTexts]

\* What cppcheck writes when it is given --xml, and when it is not.
XmlLines ==
    {ErrorLine(s.id, s.sc) : s \in StartShapes}
        \cup {LocationLine(s.file, s.ln) : s \in LocShapes}
        \cup {EndLine, TextLine1}
PlainLines == {TextLine1, TextLine2, EndLine}

(***************************************************************************)
(* The three regular expressions, on the lines above.  A match is the       *)
(* one-element sequence of its groups, no match is the empty sequence.      *)
(***************************************************************************)
start_re(l) ==
    IF \E s \in StartShapes : ErrorLine(s.id, s.sc) = l
    THEN LET s == CHOOSE s \in StartShapes : ErrorLine(s.id, s.sc) = l
         IN  <<[g1 |-> s.id, g2 |-> "s", g3 |-> "m",
                g4 |-> IF s.sc THEN "/" ELSE ""]>>
    ELSE <<>>

location_re(l) ==
    IF \E s \in LocShapes : LocationLine(s.file, s.ln) = l
    THEN LET s == CHOOSE s \in LocShapes : LocationLine(s.file, s.ln) = l
         IN  <<[g1 |-> s.file, g2 |-> s.ln]>>
    ELSE <<>>

end_re(l) == IF l = EndLine THEN <<[g0 |-> l]>> ELSE <<>>

(***************************************************************************)
(* int() and %d.                                                            *)
(***************************************************************************)
DigitVal ==
    [c \in {"0", "1", "2", "3", "4", "5", "6", "7", "8", "9"} |->
        CASE c = "0" -> 0 [] c = "1" -> 1 [] c = "2" -> 2 [] c = "3" -> 3
          [] c = "4" -> 4 [] c = "5" -> 5 [] c = "6" -> 6 [] c = "7" -> 7
          [] c = "8" -> 8 [] c = "9" -> 9]

\* int(s) raises ValueError unless s is a decimal literal.
IntRaises(cs) == cs = <<>> \/ \E i \in 1..Len(cs) : cs[i] \notin DOMAIN DigitVal

RECURSIVE IntOf(_)
IntOf(cs) ==
    IF cs = <<>> THEN 0
    ELSE IntOf(SubSeq(cs, 1, Len(cs) - 1)) * 10 + DigitVal[cs[Len(cs)]]

FormatD(n) == ToString(n)

(***************************************************************************)
(* XmlFilter.Error                                                          *)
(***************************************************************************)
ErrorInit ==
    [id |-> "", severity |-> "", msg |-> "", file |-> "", line |-> 0,
     node |-> <<>>]

\* The result of _parse_line: a bool, a str or None.
Bool(b) == [t |-> "bool", b |-> b, s |-> ""]
Str(s) == [t |-> "str", b |-> FALSE, s |-> s]
None == [t |-> "None", b |-> FALSE, s |-> ""]

is_valid(e) == e.id # ""

\* Mutant: the line number is left out of the fingerprint.
get_suppress_format_NoLine(e) ==
    IF is_valid(e)
    THEN IF e.file # ""
         THEN Str("[" \o e.id \o "]:[" \o e.file \o "]")
         ELSE Str("[" \o e.id \o "]")
    ELSE None

get_suppress_format(e) ==
    IF is_valid(e)
    THEN IF e.file # ""
         THEN IF e.line # 0
              THEN Str("[" \o e.id \o "]:[" \o e.file \o "]:["
                           \o FormatD(e.line) \o "]")
              ELSE Str("[" \o e.id \o "]:[" \o e.file \o "]")
         ELSE Str("[" \o e.id \o "]")
    ELSE None

(***************************************************************************)
(* The store file.  Its content is absent, a pickled dict (its key set),    *)
(* or a zero-length file that no pickle.load accepts.                       *)
(***************************************************************************)
NoFile == [exists |-> FALSE, pickled |-> FALSE, dict |-> {}]
Truncated == [exists |-> TRUE, pickled |-> FALSE, dict |-> {}]
Pickled(d) == [exists |-> TRUE, pickled |-> TRUE, dict |-> d]

isfile(f) == f.exists

compute_hash_filename == "cppcheck.pickle"

\* The messages, without the quotes the code puts around the file name.
WarnNotFound ==
    "Warning: file " \o compute_hash_filename \o " not found. Ignoring...\n"
WarnExists ==
    "Warning: file " \o compute_hash_filename
        \o " already exists. Use --force (-f) option to overwrite file.\n"
\* " ".join(argv)
RECURSIVE JoinSpace(_)
JoinSpace(argv) ==
    IF argv = <<>> THEN ""
    ELSE IF Len(argv) = 1 THEN argv[1]
    ELSE argv[1] \o " " \o JoinSpace(Tail(argv))

\* The text of the OSError of a command that does not exist.
Errno2(cmd) == "[Errno 2] No such file or directory: '" \o cmd \o "'"

\* The two lines the OSError handler writes in one call.
FailToRun(argv) ==
    <<"Fail to run: " \o JoinSpace(argv) \o "\n",
      "because: " \o Errno2(argv[1]) \o "\n">>

(***************************************************************************)
(* Filter and XmlFilter objects.  NoneFilter stands for `filter = None`.    *)
(***************************************************************************)
NoneFilter ==
    [cls |-> "None", read_mode |-> TRUE, overwrite |-> FALSE, lines_dict |-> {}]

\* Mutant: a filter is active whatever it has loaded.
is_active_Always(f) == f.cls # "None"

is_active(f) == ~f.read_mode \/ f.lines_dict # {}

\* Mutant: a missing store file is not caught.
read_Uncaught(cls, read_mode, f) ==
    IF read_mode /\ ~f.exists
    THEN {[dict |-> {}, warn |-> <<>>, raised |-> "IOError"]}
    ELSE {[dict |-> f.dict, warn |-> <<>>, raised |-> ""]}

\* _read: the possible results of loading the store in the constructor.
\* XmlFilter opens the file in text mode: pickle.load then succeeds on a
\* Python 2 interpreter and raises TypeError on a Python 3 interpreter.
read(cls, read_mode, f) ==
    IF read_mode /\ compute_hash_filename # ""
    THEN IF ~f.exists
         THEN {[dict |-> {}, warn |-> <<<<WarnNotFound>>>>, raised |-> ""]}
         ELSE IF ~f.pickled
         THEN {[dict |-> {}, warn |-> <<>>, raised |-> "EOFError"]}
         ELSE {[dict |-> f.dict, warn |-> <<>>, raised |-> ""]}
                 \cup IF cls = "XmlFilter"
                      THEN {[dict |-> {}, warn |-> <<>>, raised |-> "TypeError"]}
                      ELSE {}
    ELSE {[dict |-> {}, warn |-> <<>>, raised |-> ""]}

\* pickle.dump(self._lines_dict, file) after open(self._filename, 'wb' / 'w').
\* XmlFilter opens in text mode: on Python 3 the open truncates the file and
\* the dump raises TypeError, which __del__ swallows.
dump(f) ==
    {[file |-> Pickled(f.lines_dict), flush |-> "dumped"]}
        \cup IF f.cls = "XmlFilter"
             THEN {[file |-> Truncated, flush |-> "failed"]}
             ELSE {}

\* Mutant: the store file is replaced whether or not it exists.
write_Clobber(f, old) ==
    IF ~f.read_mode /\ is_active(f)
    THEN {[file |-> d.file, warn |-> <<>>, flush |-> d.flush] : d \in dump(f)}
    ELSE {[file |-> old, warn |-> <<>>, flush |-> "none"]}

\* _write, called from __del__ when `filter = None` drops the object.
write(f, old) ==
    IF ~f.read_mode /\ is_active(f) /\ compute_hash_filename # ""
    THEN IF ~f.overwrite /\ isfile(old)
         THEN {[file |-> old, warn |-> <<<<WarnExists>>>>, flush |-> "refused"]}
         ELSE {[file |-> d.file, warn |-> <<>>, flush |-> d.flush] : d \in dump(f)}
    ELSE {[file |-> old, warn |-> <<>>, flush |-> "none"]}

\* __del__ run by the interpreter's shutdown (after an uncaught exception
\* or after the OSError handler): the builtin open may already be gone, and
\* then _write raises NameError before touching the file.
write_at_exit(f, old) ==
    IF f.cls = "None"
    THEN {[file |-> old, warn |-> <<>>, flush |-> "none"]}
    ELSE write(f, old)
             \cup IF ~f.read_mode /\ is_active(f) /\ (f.overwrite \/ ~isfile(old))
                  THEN {[file |-> old, warn |-> <<>>, flush |-> "failed"]}
                  ELSE {}

(***************************************************************************)
(* Filter.process and XmlFilter.process.  A result holds the object after   *)
(* the call, the returned value and the exception raised, if any.           *)
(***************************************************************************)
Block(node) == [t |-> "str", b |-> FALSE, s |-> node]
RetBool(b) == [t |-> "bool", b |-> b, s |-> <<>>]
\* Before the first assignment to process_line and to suppress_line.
NoRet == [t |-> "unset", b |-> FALSE, s |-> <<>>]
NoParse == [t |-> "unset", b |-> FALSE, s |-> ""]

\* Mutant: read mode records the lines it has not seen.
Filter_process_Learning(f, l) ==
    [f |-> [f EXCEPT !.lines_dict = @ \cup {l}],
     ret |-> RetBool(~f.read_mode \/ l \notin f.lines_dict)]

\* Mutant: write mode passes the line on without recording it.
Filter_process_NoRecord(f, l) ==
    IF ~f.read_mode
    THEN [f |-> f, ret |-> RetBool(TRUE)]
    ELSE [f |-> f, ret |-> RetBool(l \notin f.lines_dict)]

\* Mutant: read mode emits the lines of the set and drops the others.
Filter_process_Inverted(f, l) ==
    IF ~f.read_mode
    THEN [f |-> [f EXCEPT !.lines_dict = @ \cup {l}], ret |-> RetBool(TRUE)]
    ELSE [f |-> f, ret |-> RetBool(l \in f.lines_dict)]

Filter_process(f, l) ==
    IF ~f.read_mode
    THEN [f |-> [f EXCEPT !.lines_dict = @ \cup {l}], ret |-> RetBool(TRUE)]
    ELSE [f |-> f, ret |-> RetBool(l \notin f.lines_dict)]

\* Mutant: a line that matches no pattern is withheld.
parse_line_Withhold(e, l) ==
    LET m == start_re(l) IN
    IF Len(m) > 0
    THEN LET e1 == [ErrorInit EXCEPT !.node = <<l>>, !.id = m[1].g1,
                                     !.severity = m[1].g2, !.msg = m[1].g3]
         IN  IF m[1].g4 # ""
             THEN [e |-> e1, ret |-> get_suppress_format(e1), raised |-> ""]
             ELSE [e |-> e1, ret |-> Bool(FALSE), raised |-> ""]
    ELSE LET e1 == [e EXCEPT !.node = Append(@, l)]
             m2 == location_re(l)
         IN  IF Len(m2) > 0
             THEN IF IntRaises(m2[1].g2)
                  THEN [e |-> [e1 EXCEPT !.file = m2[1].g1],
                        ret |-> None, raised |-> "ValueError"]
                  ELSE [e |-> [e1 EXCEPT !.file = m2[1].g1,
                                         !.line = IntOf(m2[1].g2)],
                        ret |-> Bool(FALSE), raised |-> ""]
             ELSE IF Len(end_re(l)) > 0
                  THEN [e |-> e1, ret |-> get_suppress_format(e1), raised |-> ""]
                  ELSE [e |-> e1, ret |-> Bool(FALSE), raised |-> ""]

parse_line(e, l) ==
    LET m == start_re(l) IN
    IF Len(m) > 0
    THEN LET e1 == [ErrorInit EXCEPT !.node = <<l>>, !.id = m[1].g1,
                                     !.severity = m[1].g2, !.msg = m[1].g3]
         IN  IF m[1].g4 # ""
             THEN [e |-> e1, ret |-> get_suppress_format(e1), raised |-> ""]
             ELSE [e |-> e1, ret |-> Bool(FALSE), raised |-> ""]
    ELSE LET e1 == [e EXCEPT !.node = Append(@, l)]
             m2 == location_re(l)
         IN  IF Len(m2) > 0
             THEN IF IntRaises(m2[1].g2)
                  THEN [e |-> [e1 EXCEPT !.file = m2[1].g1],
                        ret |-> None, raised |-> "ValueError"]
                  ELSE [e |-> [e1 EXCEPT !.file = m2[1].g1,
                                         !.line = IntOf(m2[1].g2)],
                        ret |-> Bool(FALSE), raised |-> ""]
             ELSE IF Len(end_re(l)) > 0
                  THEN [e |-> e1, ret |-> get_suppress_format(e1), raised |-> ""]
                  ELSE [e |-> e1, ret |-> Bool(TRUE), raised |-> ""]

\* Mutant: a record that is not in the set is emitted as its last line only.
XmlFilter_process_LastLine(f, e, l) ==
    LET p == parse_line(e, l)
        suppress_line == p.ret
    IN  IF p.raised # ""
        THEN [f |-> f, e |-> p.e, parsed |-> NoParse, ret |-> NoRet,
              raised |-> p.raised]
        ELSE IF ~f.read_mode
        THEN [f |-> IF suppress_line.t = "str"
                    THEN [f EXCEPT !.lines_dict = @ \cup {suppress_line.s}]
                    ELSE f,
              e |-> p.e, parsed |-> suppress_line, ret |-> RetBool(TRUE),
              raised |-> ""]
        ELSE IF suppress_line.t = "bool"
        THEN [f |-> f, e |-> p.e, parsed |-> suppress_line,
              ret |-> RetBool(suppress_line.b), raised |-> ""]
        ELSE IF suppress_line.t = "None" \/ suppress_line.s \notin f.lines_dict
        THEN [f |-> f, e |-> p.e, parsed |-> suppress_line,
              ret |-> RetBool(TRUE), raised |-> ""]
        ELSE [f |-> f, e |-> p.e, parsed |-> suppress_line,
              ret |-> RetBool(FALSE), raised |-> ""]

XmlFilter_process(f, e, l) ==
    LET p == parse_line(e, l)
        suppress_line == p.ret
    IN  IF p.raised # ""
        THEN [f |-> f, e |-> p.e, parsed |-> NoParse, ret |-> NoRet,
              raised |-> p.raised]
        ELSE IF ~f.read_mode
        THEN [f |-> IF suppress_line.t = "str"
                    THEN [f EXCEPT !.lines_dict = @ \cup {suppress_line.s}]
                    ELSE f,
              e |-> p.e, parsed |-> suppress_line, ret |-> RetBool(TRUE),
              raised |-> ""]
        ELSE IF suppress_line.t = "bool"
        THEN [f |-> f, e |-> p.e, parsed |-> suppress_line,
              ret |-> RetBool(suppress_line.b), raised |-> ""]
        ELSE IF suppress_line.t = "None" \/ suppress_line.s \notin f.lines_dict
        THEN [f |-> f, e |-> p.e, parsed |-> suppress_line,
              ret |-> Block(p.e.node), raised |-> ""]
        ELSE [f |-> f, e |-> p.e, parsed |-> suppress_line,
              ret |-> RetBool(FALSE), raised |-> ""]

process(f, e, l) ==
    IF f.cls = "XmlFilter"
    THEN XmlFilter_process(f, e, l)
    ELSE LET r == Filter_process(f, l)
         IN  [f |-> r.f, e |-> e, parsed |-> NoParse, ret |-> r.ret,
              raised |-> ""]

(***************************************************************************)
(* The command line: lines 13-45 and the argparse parser of lines 264-281.  *)
(***************************************************************************)
Range(q) == {q[i] : i \in 1..Len(q)}

\* list.index: the 0-based position of the first x, -1 for ValueError.
index(q, x) ==
    IF x \in Range(q)
    THEN (CHOOSE i \in 1..Len(q) : q[i] = x /\ \A j \in 1..(i - 1) : q[j] # x) - 1
    ELSE -1

\* q[a:b] and q[a:] of Python, on 0-based positions.
slice(q, a, b) == SubSeq(q, a + 1, b)
slice_from(q, a) == SubSeq(q, a + 1, Len(q))

\* Mutant: the two sides of the separator change places.
split_argv_Swapped(argv) ==
    LET argc == Len(argv)
        sep == index(argv, "--")
    IN  IF argc > 0
        THEN IF sep >= 0
             THEN [ccpcheck_argv |-> slice_from(argv, sep + 1),
                   argv |-> <<argv[1]>> \o (IF sep > 0 THEN slice(argv, 1, sep)
                                            ELSE <<>>),
                   use_filter |-> TRUE]
             ELSE [ccpcheck_argv |-> slice_from(argv, 1), argv |-> argv,
                   use_filter |-> FALSE]
        ELSE [ccpcheck_argv |-> <<>>, argv |-> argv, use_filter |-> FALSE]

split_argv(argv) ==
    LET argc == Len(argv)
        sep == index(argv, "--")
    IN  IF argc > 0
        THEN IF sep >= 0
             THEN [ccpcheck_argv |-> IF sep > 0 THEN slice(argv, 1, sep) ELSE <<>>,
                   argv |-> IF sep < argc
                            THEN <<argv[1]>> \o slice_from(argv, sep + 1)
                            ELSE <<argv[1]>>,
                   use_filter |-> TRUE]
             ELSE [ccpcheck_argv |-> slice_from(argv, 1), argv |-> argv,
                   use_filter |-> FALSE]
        ELSE [ccpcheck_argv |-> <<>>, argv |-> argv, use_filter |-> FALSE]

forbidden_args == {"-h", "--help", "--xml-version=1"}
xml_args == {"--xml"}

\* Mutant: the forbidden arguments are not looked for.
check_forbidden_Unchecked(s) ==
    [use_filter |-> s.use_filter,
     use_xmlFilter |-> s.use_filter /\ Range(s.ccpcheck_argv) \cap xml_args # {}]

check_forbidden(s) ==
    LET inv_args == Range(s.ccpcheck_argv) \cap forbidden_args
        ok == s.use_filter /\ inv_args = {}
    IN  [use_filter |-> ok,
         use_xmlFilter |-> ok /\ Range(s.ccpcheck_argv) \cap xml_args # {}]

WrapperFlags == {"-w", "--write", "-f", "--force", "-d", "--disable-filter"}

\* parser.parse_args(): SystemExit on an argument the parser does not know.
parse_args(argv) ==
    LET given == Range(slice_from(argv, 1))
    IN  [error |-> ~(given \subseteq WrapperFlags),
         read_mode |-> given \cap {"-w", "--write"} = {},
         overwrite |-> given \cap {"-f", "--force"} # {},
         no_filter |-> given \cap {"-d", "--disable-filter"} # {}]

NoArgs == [error |-> FALSE, read_mode |-> TRUE, overwrite |-> FALSE,
           no_filter |-> FALSE]

\* The command lines the wrapper is started with.
Forwarded == {<<"x.c">>, <<"--xml", "x.c">>}
Wrapper == {<<>>, <<"-w">>, <<"-w", "-f">>, <<"-d">>}
CommandLines ==
    {<<"cppcheck.py">> \o f \o <<"--">> \o w : f \in Forwarded, w \in Wrapper}
        \cup {<<"cppcheck.py", "x.c">>,
              <<"cppcheck.py", "--help", "--", "-w">>,
              <<"cppcheck.py", "-w", "--", "x.c">>}

\* The lines the child writes, by the arguments it was started with.
ChildLines(argv) == IF "--xml" \in Range(argv) THEN XmlLines ELSE PlainLines

(***************************************************************************)
(* The state.                                                               *)
(***************************************************************************)
VARIABLES
    file,           \* the store file
    pc,             \* "start", "spawn", "relay" or "done"
    exc,            \* the exception that ended the run, or ""
    ccpcheck_argv,  \* use_filter, use_xmlFilter, args: the module's globals
    use_filter,
    use_xmlFilter,
    args,
    filter,         \* the global `filter`
    error_node,     \* XmlFilter._error_node
    line,           \* the line the relay loop holds
    process_line,   \* what filter.process returned to the relay loop
    suppress_line,  \* what _parse_line returned to XmlFilter.process
    stderr,         \* the writes to sys.stderr, each a block of lines
    inp,            \* history: the lines read from the child in this run
    built,          \* history: the filter object as constructed in this run
    flush,          \* history: what _write did in this run
    file0,          \* history: the store file when this run started
    prev            \* history: what the previous run recorded and flushed

vars == <<file, pc, exc, ccpcheck_argv, use_filter, use_xmlFilter, args, filter,
          error_node, line, process_line, suppress_line, stderr, inp, built,
          flush, file0, prev>>

NoFlush == [did |-> "none", dict |-> {}]
NoPrev == [seen |-> {}, flush |-> "none"]

Init ==
    /\ file = NoFile
    /\ pc = "start"
    /\ exc = ""
    /\ ccpcheck_argv = <<>>
    /\ use_filter = FALSE
    /\ use_xmlFilter = FALSE
    /\ args = NoArgs
    /\ filter = NoneFilter
    /\ error_node = ErrorInit
    /\ line = ""
    /\ process_line = NoRet
    /\ suppress_line = NoParse
    /\ stderr = <<>>
    /\ inp = <<>>
    /\ built = NoneFilter
    /\ flush = NoFlush
    /\ file0 = NoFile
    /\ prev = NoPrev

\* What the run that just ended leaves for the next one to be compared with:
\* the lines its plain filter processed in write mode, and its flush.
Summary ==
    IF built.cls = "Filter" /\ ~built.read_mode /\ inp # <<>>
    THEN [seen |-> Range(inp), flush |-> flush.did]
    ELSE NoPrev

(***************************************************************************)
(* Lines 13-295: a new wrapper process, up to the construction of the       *)
(* filter.                                                                  *)
(***************************************************************************)
Main(argv) ==
    /\ pc = "start"
    /\ LET s == split_argv(argv)
           c == check_forbidden(s)
           a == IF c.use_filter THEN parse_args(s.argv) ELSE NoArgs
           cls == IF c.use_xmlFilter THEN "XmlFilter" ELSE "Filter"
       IN  /\ ccpcheck_argv' = s.ccpcheck_argv
           /\ use_filter' = c.use_filter
           /\ use_xmlFilter' = c.use_xmlFilter
           /\ args' = a
           /\ IF a.error
              THEN /\ pc' = "done"
                   /\ exc' = "SystemExit"
                   /\ filter' = NoneFilter
                   /\ built' = NoneFilter
                   /\ stderr' = <<>>
              ELSE IF ~c.use_filter \/ a.no_filter
              THEN /\ pc' = "spawn"
                   /\ exc' = ""
                   /\ filter' = NoneFilter
                   /\ built' = NoneFilter
                   /\ stderr' = <<>>
              ELSE \E r \in read(cls, a.read_mode, file) :
                     LET obj == [cls |-> cls, read_mode |-> a.read_mode,
                                 overwrite |-> a.overwrite,
                                 lines_dict |-> r.dict]
                     IN  /\ stderr' = r.warn
                         /\ exc' = r.raised
                         /\ built' = obj
                         /\ IF r.raised # ""
                            THEN pc' = "done" /\ filter' = NoneFilter
                            ELSE /\ pc' = "spawn"
                                 /\ filter' = IF is_active(obj) THEN obj
                                              ELSE NoneFilter
    /\ file0' = file
    /\ UNCHANGED <<file, error_node, line, process_line, suppress_line, inp,
                   flush, prev>>

(***************************************************************************)
(* Lines 297-301 and 316-318: the child is started, or Popen raises         *)
(* OSError, which is reported; the interpreter then exits and collects the  *)
(* filter.                                                                  *)
(***************************************************************************)
\* Mutant: the filter is flushed once more, when the child is started.
Popen_Flushing ==
    /\ pc = "spawn"
    /\ pc' = "relay"
    /\ ccpcheck_argv' = <<"cppcheck">> \o ccpcheck_argv
    /\ \E w \in write_at_exit(filter, file) : file' = w.file
    /\ UNCHANGED <<exc, use_filter, use_xmlFilter, args, filter,
                   error_node, line, process_line, suppress_line, stderr, inp,
                   built, flush, file0, prev>>

Popen ==
    /\ pc = "spawn"
    /\ pc' = "relay"
    /\ ccpcheck_argv' = <<"cppcheck">> \o ccpcheck_argv
    /\ UNCHANGED <<file, exc, use_filter, use_xmlFilter, args, filter,
                   error_node, line, process_line, suppress_line, stderr, inp,
                   built, flush, file0, prev>>

PopenRaises ==
    /\ pc = "spawn"
    /\ \E w \in write_at_exit(filter, file) :
         /\ file' = w.file
         /\ flush' = [did |-> w.flush, dict |-> filter.lines_dict]
         /\ stderr' = stderr \o <<FailToRun(<<"cppcheck">> \o ccpcheck_argv)>>
                           \o w.warn
    /\ pc' = "done"
    /\ exc' = "OSError"
    /\ filter' = NoneFilter
    /\ ccpcheck_argv' = <<"cppcheck">> \o ccpcheck_argv
    /\ UNCHANGED <<use_filter, use_xmlFilter, args, error_node, line,
                   process_line, suppress_line, inp, built, file0, prev>>

(***************************************************************************)
(* Lines 302-312: one turn of the relay loop on a line of the child.        *)
(***************************************************************************)
ReadLine(l) ==
    /\ pc = "relay"
    /\ Len(inp) < MaxLines
    /\ line' = l
    /\ inp' = Append(inp, l)
    /\ IF filter.cls # "None"
       THEN LET r == process(filter, error_node, l)
            IN  IF r.raised # ""
                THEN \E w \in write_at_exit(r.f, file) :
                       /\ file' = w.file
                       /\ flush' = [did |-> w.flush, dict |-> r.f.lines_dict]
                       /\ stderr' = stderr \o w.warn
                       /\ pc' = "done"
                       /\ exc' = r.raised
                       /\ filter' = NoneFilter
                       /\ error_node' = r.e
                       /\ UNCHANGED <<process_line, suppress_line>>
                ELSE /\ filter' = r.f
                     /\ error_node' = r.e
                     /\ process_line' = r.ret
                     /\ suppress_line' = IF filter.cls = "XmlFilter" THEN r.parsed
                                         ELSE suppress_line
                     /\ stderr' = IF r.ret.t = "str" THEN Append(stderr, r.ret.s)
                                  ELSE IF r.ret.b THEN Append(stderr, <<l>>)
                                  ELSE stderr
                     /\ UNCHANGED <<file, flush, pc, exc>>
       ELSE /\ stderr' = Append(stderr, <<l>>)
            /\ UNCHANGED <<file, flush, pc, exc, filter, error_node,
                           process_line, suppress_line>>
    /\ UNCHANGED <<ccpcheck_argv, use_filter, use_xmlFilter, args, built, file0,
                   prev>>

(***************************************************************************)
(* Lines 313-315: end of stream; `filter = None` drops the object, whose    *)
(* __del__ calls _write.                                                    *)
(***************************************************************************)
EndOfStream ==
    /\ pc = "relay"
    /\ line' = ""
    /\ \E w \in (IF filter.cls = "None"
                 THEN {[file |-> file, warn |-> <<>>, flush |-> "none"]}
                 ELSE write(filter, file)) :
         /\ file' = w.file
         /\ flush' = [did |-> w.flush, dict |-> filter.lines_dict]
         /\ stderr' = stderr \o w.warn
    /\ filter' = NoneFilter
    /\ pc' = "done"
    /\ UNCHANGED <<exc, ccpcheck_argv, use_filter, use_xmlFilter, args,
                   error_node, process_line, suppress_line, inp, built, file0,
                   prev>>

(***************************************************************************)
(* The process is gone: nothing but the store file outlives it.  The next   *)
(* process starts from the module's initial values.  ExitRecorded also      *)
(* keeps, as history, what the run recorded.                                *)
(***************************************************************************)
Reset ==
    /\ pc = "done"
    /\ pc' = "start"
    /\ exc' = ""
    /\ ccpcheck_argv' = <<>>
    /\ use_filter' = FALSE
    /\ use_xmlFilter' = FALSE
    /\ args' = NoArgs
    /\ filter' = NoneFilter
    /\ error_node' = ErrorInit
    /\ line' = ""
    /\ process_line' = NoRet
    /\ suppress_line' = NoParse
    /\ stderr' = <<>>
    /\ inp' = <<>>
    /\ built' = NoneFilter
    /\ flush' = NoFlush
    /\ file0' = file
    /\ UNCHANGED file

Exit == Reset /\ prev' = NoPrev

ExitRecorded == Reset /\ prev' = Summary

Next ==
    \/ \E argv \in CommandLines : Main(argv)
    \/ Popen
    \/ PopenRaises
    \/ \E l \in ChildLines(ccpcheck_argv) : ReadLine(l)
    \/ EndOfStream
    \/ Exit

Spec == Init /\ [][Next]_vars

\* Runs of the plain filter, each run keeping what the run before recorded.
PlainCommandLines == {c \in CommandLines : "--xml" \notin Range(c)}

NextRecorded ==
    \/ \E argv \in PlainCommandLines : Main(argv)
    \/ Popen
    \/ PopenRaises
    \/ \E l \in ChildLines(ccpcheck_argv) : ReadLine(l)
    \/ EndOfStream
    \/ ExitRecorded

SpecRecorded == Init /\ [][NextRecorded]_vars

(***************************************************************************)
(* What the claims speak of.                                                *)
(***************************************************************************)
\* A sequence of lines, each written by a call of its own.
Lines1(q) == [i \in 1..Len(q) |-> <<q[i]>>]

\* The writes of the relay loop: sys.stderr without the wrapper's own
\* messages.
OwnMessages ==
    {<<WarnNotFound>>, <<WarnExists>>}
        \cup {FailToRun(<<"cppcheck">> \o split_argv(c).ccpcheck_argv) :
                  c \in CommandLines}
IsRelayed(b) == b \notin OwnMessages
Relayed == SelectSeq(stderr, IsRelayed)

\* The lines that were written, alone or in a block.
Written == UNION {Range(stderr[i]) : i \in 1..Len(stderr)}

PlainRead == built.cls = "Filter" /\ built.read_mode
WriteMode == built.cls # "None" /\ ~built.read_mode

(***************************************************************************)
(* C1.  As claimed: whenever a read-mode run of the plain filter follows a  *)
(* write-mode run of the plain filter on the same store file, no line the   *)
(* write-mode run processed is emitted by the read-mode run.                *)
(***************************************************************************)
C1_AsClaimed == PlainRead => prev.seen \cap Written = {}

\* C1, amended: the same, for a write-mode run whose flush was not refused
\* (the store file did not exist, or the force flag was on).
C1_IdempotentSuppression ==
    (PlainRead /\ prev.flush = "dumped") => prev.seen \cap Written = {}

C1_Witness ==
    /\ PlainRead
    /\ prev.flush = "dumped"
    /\ pc = "done"
    /\ Len(inp) = 2
    /\ inp[1] \in prev.seen
    /\ inp[2] \notin prev.seen
    /\ stderr = <<<<inp[2]>>>>

(***************************************************************************)
(* C2.  In a read-mode run of the plain filter with a non-empty loaded      *)
(* store, the emitted sequence is the input sequence without the lines that *)
(* are members of the loaded set, each other line written once, unchanged   *)
(* and in input order.                                                      *)
(***************************************************************************)
C2_NoveltyPassThrough ==
    (PlainRead /\ built.lines_dict # {} /\ pc \in {"relay", "done"}) =>
        LET Novel(l) == l \notin built.lines_dict
        IN  Relayed = Lines1(SelectSeq(inp, Novel))

C2_Witness ==
    /\ PlainRead
    /\ pc = "done"
    /\ Len(inp) = 3
    /\ inp[1] \notin built.lines_dict
    /\ inp[2] \in built.lines_dict
    /\ inp[3] \notin built.lines_dict
    /\ inp[1] # inp[3]
    /\ stderr = <<<<inp[1]>>, <<inp[3]>>>>

(***************************************************************************)
(* C3.  As claimed: in a write-mode run, with either filter, every line     *)
(* read from the child is written to the error stream as it is, once and in *)
(* input order.                                                             *)
(***************************************************************************)
C3_AsClaimed ==
    (WriteMode /\ pc \in {"relay", "done"}) => Relayed = Lines1(inp)

(***************************************************************************)
(* C4.  As claimed: a write-mode run starts from the empty set, and when    *)
(* its flush is not refused the store file holds the set recorded in this   *)
(* run and nothing else; for the plain filter that set is the set of the    *)
(* lines read.                                                              *)
(***************************************************************************)
C4_AsClaimed ==
    (WriteMode /\ pc = "done" /\ exc = "" /\ flush.did # "refused"
         /\ flush.dict # {}) =>
        /\ built.lines_dict = {}
        /\ file = Pickled(flush.dict)
        /\ built.cls = "Filter" => flush.dict = Range(inp)

(***************************************************************************)
(* C5.  When a write-mode run ends, the store file exists and the force     *)
(* flag is off, the flush is skipped with the warning and the file is as it *)
(* was; a run changes the file only if the force flag is on or the file did *)
(* not exist.                                                               *)
(***************************************************************************)
C5_RefuseOverwrite ==
    pc = "done" =>
        /\ (WriteMode /\ file0.exists /\ ~built.overwrite) =>
               /\ file = file0
               /\ flush.did = "refused"
               /\ stderr # <<>>
               /\ stderr[Len(stderr)] = <<WarnExists>>
        /\ file # file0 => (WriteMode /\ (built.overwrite \/ ~file0.exists))

C5_Witness ==
    /\ pc = "done"
    /\ exc = ""
    /\ WriteMode
    /\ ~built.overwrite
    /\ file0.exists
    /\ flush.did = "refused"
    /\ flush.dict # {}
    /\ file0.dict # {}
    /\ flush.dict # file0.dict
    /\ file = file0

(***************************************************************************)
(* C6.  As claimed: a write-mode run whose set is still empty when the      *)
(* stream ends does not flush: the store file is neither created nor        *)
(* replaced.                                                                *)
(***************************************************************************)
C6_AsClaimed ==
    (WriteMode /\ pc = "done" /\ exc = "" /\ flush.dict = {}) =>
        /\ flush.did = "none"
        /\ file = file0

(***************************************************************************)
(* C7.  In a read-mode run whose store file does not exist, loading gives   *)
(* the empty set and the warning, no exception ends the run before the      *)
(* child is started, and every line of the child is written as it is, in    *)
(* order.                                                                   *)
(***************************************************************************)
C7_GracefulMissingStore ==
    (built.cls # "None" /\ built.read_mode /\ ~file0.exists) =>
        /\ built.lines_dict = {}
        /\ pc \in {"spawn", "relay", "done"}
        /\ exc \in {"", "OSError"}
        /\ stderr # <<>> /\ stderr[1] = <<WarnNotFound>>
        /\ Relayed = Lines1(inp)
        /\ pc = "spawn" => ENABLED Popen

C7_Witness ==
    /\ built.cls = "XmlFilter"
    /\ built.read_mode
    /\ ~file0.exists
    /\ pc = "done"
    /\ exc = ""
    /\ Len(inp) = 3
    /\ Len(start_re(inp[1])) > 0
    /\ Len(location_re(inp[2])) > 0
    /\ inp[3] = EndLine
    /\ stderr = <<<<WarnNotFound>>>> \o Lines1(inp)

(***************************************************************************)
(* The records of the XML stream, read off the lines of the run.            *)
(***************************************************************************)
IsStart(l) == Len(start_re(l)) > 0
IsSelfClosing(l) == IsStart(l) /\ start_re(l)[1].g4 # ""
IsOpening(l) == IsStart(l) /\ start_re(l)[1].g4 = ""
IsLocation(l) == Len(location_re(l)) > 0
IsEnd(l) == Len(end_re(l)) > 0

\* The position of the last record-start line of q, 0 if it has none.
LastStart(q) ==
    IF \E k \in 1..Len(q) : IsStart(q[k])
    THEN CHOOSE k \in 1..Len(q) :
             IsStart(q[k]) /\ \A j \in (k + 1)..Len(q) : ~IsStart(q[j])
    ELSE 0

\* q ends with the record-end line that closes the record its last
\* record-start line opened.
ClosedRecord(q) ==
    LET k == LastStart(q)
    IN  /\ k > 0
        /\ IsOpening(q[k])
        /\ Len(q) > k
        /\ IsEnd(q[Len(q)])
        /\ \A j \in (k + 1)..(Len(q) - 1) : ~IsEnd(q[j])

\* The same, with nothing but location lines inside the record.
WellFormedRecord(q) ==
    /\ ClosedRecord(q)
    /\ \A j \in (LastStart(q) + 1)..(Len(q) - 1) : IsLocation(q[j])

\* q ends inside a record: a record-start line, then location lines only.
OpenRecord(q) ==
    LET k == LastStart(q)
    IN  /\ k > 0
        /\ IsOpening(q[k])
        /\ \A j \in (k + 1)..Len(q) : IsLocation(q[j])

RecordLines(q) == SubSeq(q, LastStart(q), Len(q))
RecordId(q) == start_re(q[LastStart(q)])[1].g1
RecordLocations(q) == {j \in (LastStart(q) + 1)..Len(q) : IsLocation(q[j])}
LastLocation(q) ==
    location_re(q[CHOOSE j \in RecordLocations(q) :
                      \A i \in RecordLocations(q) : i <= j])[1]

\* The line attributes of the record's location lines are decimal numbers.
Numbered(q) ==
    \A j \in RecordLocations(q) : ~IntRaises(location_re(q[j])[1].g2)

\* The fingerprint of the record q ends with, as the claim gives it: the
\* line attribute as it stands in the location line.
ClaimedFingerprint(q) ==
    IF RecordLocations(q) = {}
    THEN "[" \o RecordId(q) \o "]"
    ELSE "[" \o RecordId(q) \o "]:[" \o LastLocation(q).g1 \o "]:["
             \o Join(LastLocation(q).g2) \o "]"

\* The same, with the line attribute read as a number: its decimal value
\* when that is not 0, and no line part when it is 0.
NumberedFingerprint(q) ==
    IF RecordLocations(q) = {}
    THEN "[" \o RecordId(q) \o "]"
    ELSE IF IntOf(LastLocation(q).g2) = 0
    THEN "[" \o RecordId(q) \o "]:[" \o LastLocation(q).g1 \o "]"
    ELSE "[" \o RecordId(q) \o "]:[" \o LastLocation(q).g1 \o "]:["
             \o ToString(IntOf(LastLocation(q).g2)) \o "]"

\* The XML filter has just processed the last line of inp.
XmlProcessed ==
    /\ filter.cls = "XmlFilter"
    /\ pc = "relay"
    /\ inp # <<>>

\* The parts of C8 that hold as claimed: a self-closing record-start line
\* gives [I] at once; a record-end line with no id set gives no fingerprint,
\* which is not stored and does not match the set.
C8_Rest ==
    /\ IsSelfClosing(line) => suppress_line = Str("[" \o RecordId(inp) \o "]")
    /\ (IsEnd(line) /\ LastStart(inp) = 0) =>
           /\ suppress_line = None
           /\ ~filter.read_mode => filter.lines_dict = {}
           /\ filter.read_mode => process_line = Block(inp)

(***************************************************************************)
(* C8.  As claimed: the fingerprint computed at the close of a record with  *)
(* id I is [I]:[F]:[L] when a location line with file F and line L was seen *)
(* in it and [I] when none was; a self-closing record-start line gives [I]; *)
(* with no id set there is no fingerprint.                                  *)
(***************************************************************************)
C8_AsClaimed ==
    XmlProcessed =>
        /\ ClosedRecord(inp) => suppress_line = Str(ClaimedFingerprint(inp))
        /\ C8_Rest

\* C8, amended: with a location line seen, the fingerprint is [I]:[F]:[n]
\* for the decimal value n of the last location line's line attribute when
\* n is not 0, and [I]:[F] when n is 0.
C8_FingerprintFormat ==
    XmlProcessed =>
        /\ ClosedRecord(inp) => suppress_line = Str(NumberedFingerprint(inp))
        /\ C8_Rest

C8_Witness ==
    /\ XmlProcessed
    /\ Len(inp) = 3
    /\ inp[1] = ErrorLine("A", FALSE)
    /\ inp[2] = LocationLine("f.c", <<"1", "0">>)
    /\ inp[3] = EndLine
    /\ suppress_line = Str("[A]:[f.c]:[10]")

(***************************************************************************)
(* C9.  A turn of the relay loop in a read-mode run of the XML filter, on   *)
(* a line of a record made of a record-start line, location lines and a     *)
(* record-end line: nothing is written while the record is open; at the     *)
(* record-end line the record's lines, from start line to end line, are     *)
(* written as one block if the record's fingerprint is not in the loaded    *)
(* set, and nothing is written if it is.                                    *)
(***************************************************************************)
RecordDecision ==
    /\ OpenRecord(inp') => stderr' = stderr
    /\ (WellFormedRecord(inp') /\ Numbered(inp')) =>
           stderr' = IF NumberedFingerprint(inp') \in built.lines_dict
                     THEN stderr
                     ELSE Append(stderr, RecordLines(inp'))

XmlReadTurn ==
    /\ built.cls = "XmlFilter"
    /\ built.read_mode
    /\ pc = "relay"
    /\ inp' # inp

C10_AsClaimed == (built.cls = "XmlFilter" /\ inp # <<>>) => exc = ""

(***************************************************************************)
(* C11.  The two sides of the separator of a command line.                  *)
(***************************************************************************)
HasSeparator(argv) == "--" \in Range(argv)
BeforeSeparator(argv) == slice(argv, 1, index(argv, "--"))
AfterSeparator(argv) == slice_from(argv, index(argv, "--") + 1)

\* The step from the start of a process on the command line argv takes
\* `own` as the wrapper's flags and `forwarded` as the underlying tool's
\* arguments.  The wrapper's flags are parsed unless a forbidden forwarded
\* argument has switched the filter off.
Takes(argv, own, forwarded) ==
    /\ ccpcheck_argv' = forwarded
    /\ use_filter' => args' = parse_args(<<argv[1]>> \o own)
    /\ (use_filter' /\ ~args'.error) =>
           /\ built'.cls # "None" =>
                  /\ built'.read_mode = ({"-w", "--write"} \cap Range(own) = {})
                  /\ built'.overwrite = ({"-f", "--force"} \cap Range(own) # {})
           /\ built'.cls = "None" =>
                  {"-d", "--disable-filter"} \cap Range(own) # {}

\* C11, as claimed: when the command line holds the separator, the
\* arguments before it are taken as the wrapper's own flags and the
\* arguments after it are the argument list forwarded to the underlying
\* tool.
C11_AsClaimed ==
    [][\A argv \in CommandLines :
          (Main(argv) /\ HasSeparator(argv)) =>
              Takes(argv, BeforeSeparator(argv), AfterSeparator(argv))]_vars

\* C11, amended: when the command line holds the separator, the arguments
\* before it are the argument list forwarded to the underlying tool and the
\* arguments after it are taken as the wrapper's own flags.
C11_InvocationContract ==
    [][\A argv \in CommandLines :
          (Main(argv) /\ HasSeparator(argv)) =>
              Takes(argv, AfterSeparator(argv), BeforeSeparator(argv))]_vars

C11_Witness ==
    /\ pc = "relay"
    /\ ccpcheck_argv = <<"cppcheck", "--xml", "x.c">>
    /\ use_filter
    /\ built.cls = "XmlFilter"
    /\ ~built.read_mode
    /\ built.overwrite

(***************************************************************************)
(* C12.  Forbidden forwarded arguments and the choice of the filter class.  *)
(***************************************************************************)
Started == pc # "start"
Forbidden == Range(ccpcheck_argv) \cap forbidden_args # {}
XmlAsked == Range(ccpcheck_argv) \cap xml_args # {}

\* No filter object, the store file untouched, the child started, and its
\* lines written as they are.
Unfiltered ==
    /\ built.cls = "None"
    /\ filter.cls = "None"
    /\ file = file0
    /\ flush.did = "none"
    /\ pc = "spawn" => ENABLED Popen
    /\ \/ exc = "" /\ stderr = Lines1(inp)
       \/ exc = "OSError" /\ stderr = <<FailToRun(ccpcheck_argv)>> /\ inp = <<>>

SelectedClass == IF XmlAsked THEN "XmlFilter" ELSE "Filter"

Inactive ==
    /\ Started
    /\ built.cls = "None" \/ (built.read_mode /\ built.lines_dict = {})

IsOther(l) == ~IsStart(l) /\ ~IsLocation(l) /\ ~IsEnd(l)

XmlOtherTurn ==
    /\ filter.cls = "XmlFilter"
    /\ pc = "relay"
    /\ inp' # inp
    /\ IsOther(line')

Accumulated == error_node'.node = Append(error_node.node, line')

\* C14, as claimed: the line is appended to the accumulator and reported as
\* "not yet a decision"; in read mode it is not written when it arrives.
C14_AsClaimed ==
    [][XmlOtherTurn =>
          /\ Accumulated
          /\ suppress_line' = Bool(FALSE)
          /\ filter.read_mode => stderr' = stderr]_vars

\* C14, amended: the line is appended to the accumulator and reported as a
\* line to emit; in read mode, as in write mode, it is written on its own
\* when it arrives.
C14_UnrecognisedLine ==
    [][XmlOtherTurn =>
          /\ Accumulated
          /\ suppress_line' = Bool(TRUE)
          /\ process_line' = RetBool(TRUE)
          /\ stderr' = Append(stderr, <<line'>>)]_vars

C14_Witness ==
    /\ XmlProcessed
    /\ filter.read_mode
    /\ Len(inp) = 3
    /\ IsOpening(inp[1])
    /\ IsLocation(inp[2])
    /\ IsOther(inp[3])
    /\ error_node.node = inp
    /\ stderr = <<<<inp[3]>>>>

(***************************************************************************)
(* C15.  In every run the store file changes at most once, and only in the  *)
(* step that ends the run: the end of the stream, or the teardown that      *)
(* follows an exception; a turn of the relay loop after which the loop goes *)
(* on leaves the file alone.                                                *)
(***************************************************************************)
C15_FlushTiming ==
    [][/\ (file' # file \/ flush'.did \notin {"none", flush.did}) =>
              /\ built.cls # "None"
              /\ pc \in {"spawn", "relay"}
              /\ pc' = "done"
              /\ flush.did = "none"
              /\ file = file0
       /\ pc' = "relay" => (file' = file /\ flush' = NoFlush)]_vars

C15_Witness ==
    /\ pc = "done"
    /\ exc = ""
    /\ built.cls = "Filter"
    /\ Len(inp) = MaxLines
    /\ file0.exists
    /\ flush.did = "dumped"
    /\ file # file0
    /\ file = Pickled(Range(inp))

(***************************************************************************)
(* C16.  In a read-mode run, with either filter, the set held by the filter *)
(* is after every process(line) the set loaded at construction, up to the   *)
(* teardown, and the store file is what it was when the run started.        *)
(***************************************************************************)
ReadMode == built.cls # "None" /\ built.read_mode

C16_ReadOnly ==
    ReadMode =>
        /\ filter.cls # "None" => filter.lines_dict = built.lines_dict
        /\ pc = "done" => (flush.did = "none" /\ flush.dict \in {{}, built.lines_dict})
        /\ file = file0

C16_Witness ==
    /\ ReadMode
    /\ built.cls = "XmlFilter"
    /\ built.lines_dict # {}
    /\ pc = "done"
    /\ exc = ""
    /\ Len(inp) = MaxLines
    /\ WellFormedRecord(inp)
    /\ stderr = <<inp>>
    /\ flush.dict = built.lines_dict
    /\ file = file0

(***************************************************************************)
(* C17.  The text written by the relay loop, line by line.                  *)
(***************************************************************************)
RECURSIVE Flatten(_)
Flatten(blocks) ==
    IF blocks = <<>> THEN <<>> ELSE Head(blocks) \o Flatten(Tail(blocks))

\* a can be had from b by leaving lines out.
RECURSIVE IsSubsequence(_, _)
IsSubsequence(a, b) ==
    IF a = <<>> THEN TRUE
    ELSE IF b = <<>> THEN FALSE
    ELSE IF Head(a) = Head(b) THEN IsSubsequence(Tail(a), Tail(b))
    ELSE IsSubsequence(a, Tail(b))

\* C17, as claimed: in a read-mode run of the XML filter every input line
\* is written at most once: the lines written, in the order written, are a
\* subsequence of the lines read.
C17_AsClaimed ==
    (built.cls = "XmlFilter" /\ built.read_mode) =>
        IsSubsequence(Flatten(Relayed), inp)

(***************************************************************************)
(* C18.  The lines the XML filter withholds in read mode.                   *)
(***************************************************************************)
\* The line at position i is withheld when it arrives.
Withheld(i) == IsOpening(inp[i]) \/ IsLocation(inp[i])

\* The line at position i belongs to a record that a record-end line at a
\* later position closes, and whose fingerprint is in the loaded set.
InSuppressedRecord(i) ==
    \E j \in (i + 1)..Len(inp) :
        /\ IsEnd(inp[j])
        /\ \A k \in (i + 1)..(j - 1) : ~IsStart(inp[k]) /\ ~IsEnd(inp[k])
        /\ ClosedRecord(SubSeq(inp, 1, j))
        /\ NumberedFingerprint(SubSeq(inp, 1, j)) \in built.lines_dict

\* C18, as claimed: when a read-mode run of the XML filter with a non-empty
\* loaded set has reached the end of the stream, every line that was
\* withheld has been written, or belongs to a record whose fingerprint is
\* in the loaded set.
C18_AsClaimed ==
    (built.cls = "XmlFilter" /\ built.read_mode /\ built.lines_dict # {}
         /\ pc = "done" /\ exc = "") =>
        \A i \in 1..Len(inp) :
            Withheld(i) => (inp[i] \in Written \/ InSuppressedRecord(i))

(***************************************************************************)
(* C19.  A record-end line that arrives when no record is open.             *)
(***************************************************************************)
\* q ends inside a record: its last record-start line is not self-closing
\* and no record-end line has come since.
RecordOpen(q) ==
    LET k == LastStart(q)
    IN  /\ k > 0
        /\ IsOpening(q[k])
        /\ \A j \in (k + 1)..Len(q) : ~IsEnd(q[j])

IdleEndTurn ==
    /\ filter.cls = "XmlFilter"
    /\ pc = "relay"
    /\ pc' = "relay"
    /\ inp' # inp
    /\ IsEnd(line')
    /\ ~RecordOpen(inp)

\* C19, as claimed: such a line yields no fingerprint, leaves the set as it
\* is in write mode and has no block written in read mode.
C19_AsClaimed ==
    [][IdleEndTurn =>
          /\ suppress_line'.t # "str"
          /\ filter'.lines_dict = filter.lines_dict
          /\ process_line'.t # "str"
          /\ filter.read_mode => stderr' = stderr]_vars

(***************************************************************************)
(* C20.  As claimed: when starting the child fails with OSError, the        *)
(* failure is written to the error stream, no line is processed, and the    *)
(* store file after the run is what it was before it, in write mode as in   *)
(* read mode and whatever the overwrite flag.                               *)
(***************************************************************************)
C20_AsClaimed ==
    exc = "OSError" =>
        /\ pc = "done"
        /\ FailToRun(ccpcheck_argv) \in Range(stderr)
        /\ inp = <<>>
        /\ file = file0

====
